---- MODULE Spec2Model ----
(***************************************************************************)
(* Model of the gorm policy adapter (adapter.go, internal_func.go):        *)
(* the rule codec, the query predicates, the mutation executor working on  *)
(* one policy table, the full / filtered load into the engine's model and  *)
(* the transaction wrapper.                                                *)
(*                                                                         *)
(* A row (CasbinRule without its ID) is a sequence of NumCols strings      *)
(* <<Ptype, V0, ..., V7>>; the table is the sequence of its rows in ID     *)
(* order.  A rule tuple is a sequence of strings whose head is the type.   *)
(* The engine's model maps each rule type to the sequence of its rules.    *)
(***************************************************************************)
EXTENDS Integers, Sequences, FiniteSets, TLC

VARIABLES
    store,       \* committed rows of the adapter's table, in ID order
    model,       \* the policy engine's model: ptype -> sequence of rules
    isFiltered,  \* Adapter.isFiltered
    eAdapter,    \* the adapter installed in the engine: "a", or "b" (bound to a finished tx)
    saved,       \* TRUE while the table holds what the last successful SavePolicy wrote from the present model
    last,        \* the last call: operation, arguments, state before it, results
    tablePrefix, \* Adapter.tablePrefix
    tableName,   \* Adapter.tableName
    otherTables, \* the rows of the database's other tables, by table name
    ctxDone,     \* the context of the context-scoped call is cancelled
    caller,      \* the caller of the context-scoped call: position, call, what it received
    workers      \* the goroutines started by context-scoped calls: position, result

vars == <<store, model, isFiltered, eAdapter, saved, last,
          tablePrefix, tableName, otherTables, ctxDone, caller, workers>>

\* The adapter's table configuration and the tables it is not configured for.
tableVars == <<tablePrefix, tableName, otherTables>>

\* The state of the context-scoped calls.
ctxVars == <<ctxDone, caller, workers>>

-----------------------------------------------------------------------------
(* Program constants and bounds                                            *)

\* Columns of a row: Ptype and V0..V7.
NumCols == 9

\* Rows a table holds at most in the explored runs.
MaxRows == 2

\* Rules the engine's model holds at most in the explored runs.
MaxModel == 2

\* Goroutines of context-scoped calls the explored runs hold at most.
MaxWorkers == 2

\* The name of the table when the caller gives none, and the table name of
\* the CasbinRule type.
defaultTableName == "casbin_rule"

\* The tables of the database in the explored runs.
TableNames == {"casbin_rule", "rules", "cms_casbin_rule", "cms_rules"}

\* An adapter constructed for the default table without a prefix, in a
\* database whose other tables are empty.
DefaultTable ==
    /\ tablePrefix = ""
    /\ tableName = defaultTableName
    /\ otherTables = [n \in TableNames \ {defaultTableName} |-> <<>>]

\* No context-scoped call was made.
NoContextCall ==
    /\ ctxDone = FALSE
    /\ caller = [pc |-> "idle"]
    /\ workers = [w \in 1..MaxWorkers |-> [pc |-> "none"]]

ErrNil == "nil"
ErrUnique == "unique constraint violated"
ErrStore == "store failure"
ErrQueryField == "the query field cannot all be empty string"
ErrFilterType == "unsupported filter type"
ErrModel == "model rejects rule"
ErrTxDone == "transaction has already been committed or rolled back"
ErrEmptySlice == "empty slice found"
ErrCallback == "callback error"
Panic == "panic"
ErrCanceled == "context canceled"
CtxWithoutDBError == "db does not within context"

-----------------------------------------------------------------------------
(* Rule codec                                                              *)

\* The zero row returned by getTableInstance.
getTableInstance == [i \in 1..NumCols |-> ""]

\* savePolicyLine: Ptype, then rule[k] into Vk for every k < len(rule), k <= 7.
savePolicyLine(ptype, rule) ==
    [i \in 1..NumCols |->
        IF i = 1 THEN ptype
        ELSE IF Len(rule) > i - 2 THEN rule[i - 1]
        ELSE getTableInstance[i]]

\* The index loop of loadPolicyLine / Preview: from the last column down to the
\* first non-empty one.  0 stands for the index running below the slice
\* (a row whose nine columns are all empty), where the Go code panics.
RECURSIVE trimIndex(_, _)
trimIndex(p, index) ==
    IF index = 0 THEN 0
    ELSE IF p[index] = "" THEN trimIndex(p, index - 1)
    ELSE index

\* A decoding that drops every empty column instead of the trailing ones.
rowToRule_DropEmpty(line) == SelectSeq(line, LAMBDA x : x # "")

\* The tuple loadPolicyLine hands to the model: p[:index+1].
rowToRule(line) == SubSeq(line, 1, trimIndex(line, NumCols))

\* toStringPolicy: every non-empty column, Ptype first, appended in order.
toStringPolicy(c) == SelectSeq(c, LAMBDA x : x # "")

-----------------------------------------------------------------------------
(* Query builder                                                           *)

\* The predicate rawDelete builds from a row: ptype = ? and, for every
\* non-empty value column, vk = ?.
rawDeleteWhere(line, row) ==
    /\ row[1] = line[1]
    /\ \A i \in 2..NumCols : line[i] # "" => row[i] = line[i]

\* The predicate CasbinRule.queryString builds from a row.
queryString(c, row) ==
    /\ row[1] = c[1]
    /\ \A i \in 2..NumCols : c[i] # "" => row[i] = c[i]

\* checkQueryField without its loop: every value list passes.
checkQueryField_Never(fieldValues) == ErrNil

\* checkQueryField: nil as soon as one value is not the empty string.
checkQueryField(fieldValues) ==
    IF \E i \in 1..Len(fieldValues) : fieldValues[i] # "" THEN ErrNil ELSE ErrQueryField

\* The eight window assignments of removeFilteredPolicy: Vk takes
\* fieldValues[k-fieldIndex] when fieldIndex <= k < fieldIndex+len(fieldValues).
removeWindowLine(line, fieldIndex, fieldValues) ==
    [i \in 1..NumCols |->
        IF i >= 2 /\ fieldIndex <= i - 2 /\ i - 2 < fieldIndex + Len(fieldValues)
        THEN fieldValues[(i - 2) - fieldIndex + 1]
        ELSE line[i]]

\* The same eight assignments in updateFilteredPolicies.
updateWindowLine(line, fieldIndex, fieldValues) ==
    [i \in 1..NumCols |->
        IF i >= 2 /\ fieldIndex <= i - 2 /\ i - 2 < fieldIndex + Len(fieldValues)
        THEN fieldValues[(i - 2) - fieldIndex + 1]
        ELSE line[i]]

-----------------------------------------------------------------------------
(* Statements on the table                                                 *)

Range(s) == {s[i] : i \in 1..Len(s)}

\* The unique index over (ptype, v0..v7): inserting lines into tbl breaks it
\* when a line is already stored or occurs twice among the lines.
uniqueViolation(tbl, lines) ==
    \/ \E i \in 1..Len(lines) : lines[i] \in Range(tbl)
    \/ \E i, j \in 1..Len(lines) : i # j /\ lines[i] = lines[j]

\* db.Create(&line): one insert statement for one row.
CreateOne(tbl, line) ==
    IF uniqueViolation(tbl, <<line>>)
    THEN [err |-> ErrUnique, tbl |-> tbl]
    ELSE [err |-> ErrNil, tbl |-> Append(tbl, line)]

\* db.Create(&lines): one bulk insert statement; it inserts every row or none.
CreateBatch(tbl, lines) ==
    IF lines = <<>> THEN [err |-> ErrEmptySlice, tbl |-> tbl]
    ELSE IF uniqueViolation(tbl, lines) THEN [err |-> ErrUnique, tbl |-> tbl]
    ELSE [err |-> ErrNil, tbl |-> tbl \o lines]

\* rawDelete: delete every row the predicate of line selects.
rawDelete(tbl, line) == SelectSeq(tbl, LAMBDA r : ~rawDeleteWhere(line, r))

\* The insert loop of updateFilteredPolicies: one insert per new row, stopping
\* at the first error.
RECURSIVE createEach(_, _, _)
createEach(tbl, newP, i) ==
    IF i > Len(newP) THEN [err |-> ErrNil, tbl |-> tbl]
    ELSE LET r == CreateOne(tbl, newP[i]) IN
         IF r.err # ErrNil THEN r ELSE createEach(r.tbl, newP, i + 1)

-----------------------------------------------------------------------------
(* Mutation executor                                                       *)

Idle == [op |-> "idle"]

\* The caller takes the result of the call; the adapter is ready for the next.
Return ==
    /\ last.op # "idle"
    /\ last' = Idle
    /\ UNCHANGED <<store, model, isFiltered, eAdapter, saved, tableVars, ctxVars>>

\* addPolicy: encode the rule and insert the row.
addPolicy(tbl, ptype, rule) == CreateOne(tbl, savePolicyLine(ptype, rule))

AddPolicy(ptype, rule, fail) ==
    LET r == IF fail THEN [err |-> ErrStore, tbl |-> store]
             ELSE addPolicy(store, ptype, rule) IN
    /\ Len(r.tbl) <= MaxRows
    /\ store' = r.tbl
    /\ saved' = (saved /\ r.tbl = store)
    /\ last' = [op |-> "add", ptype |-> ptype, rule |-> rule, pre |-> store,
                err |-> r.err]
    /\ UNCHANGED <<model, isFiltered, eAdapter, tableVars, ctxVars>>

\* addPolicies inserting the rows one statement at a time.
addPolicies_OneByOne(tbl, ptype, rules) ==
    createEach(tbl, [i \in 1..Len(rules) |-> savePolicyLine(ptype, rules[i])], 1)

\* addPolicies: encode every rule, then one bulk insert of all rows.
addPolicies(tbl, ptype, rules) ==
    CreateBatch(tbl, [i \in 1..Len(rules) |-> savePolicyLine(ptype, rules[i])])

AddPolicies(ptype, rules, fail) ==
    LET r == IF fail THEN [err |-> ErrStore, tbl |-> store]
             ELSE addPolicies(store, ptype, rules) IN
    /\ Len(r.tbl) <= MaxRows
    /\ store' = r.tbl
    /\ saved' = (saved /\ r.tbl = store)
    /\ last' = [op |-> "addBatch", ptype |-> ptype, rules |-> rules, pre |-> store,
                err |-> r.err]
    /\ UNCHANGED <<model, isFiltered, eAdapter, tableVars, ctxVars>>

\* removeFilteredPolicy without the -1 shortcut.
removeFilteredPolicy_NoShortcut(tbl, ptype, fieldIndex, fieldValues) ==
    LET line == [getTableInstance EXCEPT ![1] = ptype] IN
    IF checkQueryField(fieldValues) # ErrNil
    THEN [err |-> checkQueryField(fieldValues), tbl |-> tbl]
    ELSE [err |-> ErrNil,
          tbl |-> rawDelete(tbl, removeWindowLine(line, fieldIndex, fieldValues))]

\* removeFilteredPolicy: offset -1 deletes by type alone; any other offset
\* validates the values, fills the window and deletes by the row's predicate.
removeFilteredPolicy(tbl, ptype, fieldIndex, fieldValues) ==
    LET line == [getTableInstance EXCEPT ![1] = ptype] IN
    IF fieldIndex = -1 THEN [err |-> ErrNil, tbl |-> rawDelete(tbl, line)]
    ELSE IF checkQueryField(fieldValues) # ErrNil
    THEN [err |-> checkQueryField(fieldValues), tbl |-> tbl]
    ELSE [err |-> ErrNil,
          tbl |-> rawDelete(tbl, removeWindowLine(line, fieldIndex, fieldValues))]

RemoveFilteredPolicy(ptype, fieldIndex, fieldValues, fail) ==
    LET r0 == removeFilteredPolicy(store, ptype, fieldIndex, fieldValues)
        \* the delete statement is the only store access: it can fail
        r == IF fail /\ r0.err = ErrNil THEN [err |-> ErrStore, tbl |-> store] ELSE r0 IN
    /\ store' = r.tbl
    /\ saved' = (saved /\ r.tbl = store)
    /\ last' = [op |-> "removeFiltered", ptype |-> ptype, fieldIndex |-> fieldIndex,
                fieldValues |-> fieldValues, pre |-> store, err |-> r.err]
    /\ UNCHANGED <<model, isFiltered, eAdapter, tableVars, ctxVars>>

\* updateFilteredPolicies: in one transaction, find the rows the window
\* selects, delete them, insert the new rows; return the old rows as tuples
\* together with the commit's error.  failAt names the statement the store
\* fails ("none": no store failure).
updateFilteredPolicies(tbl, ptype, newPolicies, fieldIndex, fieldValues, failAt) ==
    LET line == updateWindowLine([getTableInstance EXCEPT ![1] = ptype],
                                 fieldIndex, fieldValues)
        newP == [i \in 1..Len(newPolicies) |-> savePolicyLine(ptype, newPolicies[i])]
        oldP == SelectSeq(tbl, LAMBDA r : queryString(line, r))
        deleted == SelectSeq(tbl, LAMBDA r : ~queryString(line, r))
        created == createEach(deleted, newP, 1)
        oldPolicies == [i \in 1..Len(oldP) |-> toStringPolicy(oldP[i])]
        rollback(e) == [rules |-> <<>>, isNil |-> TRUE, err |-> e, tbl |-> tbl, oldP |-> <<>>]
    IN  IF failAt = "find" \/ failAt = "delete" THEN rollback(ErrStore)
        ELSE IF created.err # ErrNil THEN rollback(created.err)
        ELSE IF failAt = "create" /\ newP # <<>> THEN rollback(ErrStore)
        ELSE IF failAt = "commit"
        THEN [rules |-> oldPolicies, isNil |-> FALSE, err |-> ErrStore, tbl |-> tbl,
              oldP |-> oldP]
        ELSE [rules |-> oldPolicies, isNil |-> FALSE, err |-> ErrNil,
              tbl |-> created.tbl, oldP |-> oldP]

UpdateFilteredPolicies(ptype, newPolicies, fieldIndex, fieldValues, failAt) ==
    LET r == updateFilteredPolicies(store, ptype, newPolicies, fieldIndex,
                                    fieldValues, failAt) IN
    /\ Len(r.tbl) <= MaxRows
    /\ store' = r.tbl
    /\ saved' = (saved /\ r.tbl = store)
    /\ last' = [op |-> "updateFiltered", ptype |-> ptype, newPolicies |-> newPolicies,
                fieldIndex |-> fieldIndex, fieldValues |-> fieldValues, pre |-> store,
                rules |-> r.rules, err |-> r.err]
    /\ UNCHANGED <<model, isFiltered, eAdapter, tableVars, ctxVars>>

\* Where(&oldLine) with a struct: a condition for every non-zero field of
\* the struct (the ID, zero, gives none).
updateWhere(oldLine, row) ==
    \A i \in 1..NumCols : oldLine[i] # "" => row[i] = oldLine[i]

\* Updates(newLine) with a struct: the row takes the non-zero fields of the
\* struct; a column whose field is the empty string keeps its value.
updatesRow(row, newLine) ==
    [i \in 1..NumCols |-> IF newLine[i] # "" THEN newLine[i] ELSE row[i]]

\* One UPDATE statement: every row the condition selects is written; the
\* statement fails as a whole when the rows it leaves break the unique index.
UpdateWhere(tbl, oldLine, newLine) ==
    LET t == [i \in 1..Len(tbl) |->
                 IF updateWhere(oldLine, tbl[i]) THEN updatesRow(tbl[i], newLine)
                 ELSE tbl[i]]
    IN  IF \E i, j \in 1..Len(t) : i # j /\ t[i] = t[j]
        THEN [err |-> ErrUnique, tbl |-> tbl]
        ELSE [err |-> ErrNil, tbl |-> t]

\* updatePolicy: encode both rules; one UPDATE statement.
updatePolicy(tbl, ptype, oldRule, newPolicy) ==
    UpdateWhere(tbl, savePolicyLine(ptype, oldRule), savePolicyLine(ptype, newPolicy))

UpdatePolicy(ptype, oldRule, newPolicy, fail) ==
    LET r == IF fail THEN [err |-> ErrStore, tbl |-> store]
             ELSE updatePolicy(store, ptype, oldRule, newPolicy) IN
    /\ store' = r.tbl
    /\ saved' = (saved /\ r.tbl = store)
    /\ last' = [op |-> "update", ptype |-> ptype, oldRule |-> oldRule,
                newPolicy |-> newPolicy, pre |-> store, err |-> r.err]
    /\ UNCHANGED <<model, isFiltered, eAdapter, tableVars, ctxVars>>

\* The loop of updatePolicies inside its transaction: statement i updates by
\* oldPolicies[i] to newPolicies[i]; the first error ends it.  Indexing
\* newPolicies behind its end panics.
RECURSIVE updateEach(_, _, _, _)
updateEach(tbl, oldPolicies, newPolicies, i) ==
    IF i > Len(oldPolicies) THEN [err |-> ErrNil, tbl |-> tbl]
    ELSE IF i > Len(newPolicies) THEN [err |-> Panic, tbl |-> tbl]
    ELSE LET r == UpdateWhere(tbl, oldPolicies[i], newPolicies[i]) IN
         IF r.err # ErrNil THEN r
         ELSE updateEach(r.tbl, oldPolicies, newPolicies, i + 1)

\* updatePolicies: encode the rules; the loop runs in one transaction, which
\* commits when the loop ends without error and rolls back otherwise.
updatePolicies(tbl, ptype, oldRules, newRules) ==
    LET oldPolicies == [i \in 1..Len(oldRules) |-> savePolicyLine(ptype, oldRules[i])]
        newPolicies == [i \in 1..Len(newRules) |-> savePolicyLine(ptype, newRules[i])]
        r == updateEach(tbl, oldPolicies, newPolicies, 1)
    IN  IF r.err # ErrNil THEN [err |-> r.err, tbl |-> tbl] ELSE r

UpdatePolicies(ptype, oldRules, newRules, fail) ==
    LET r == IF fail THEN [err |-> ErrStore, tbl |-> store]
             ELSE updatePolicies(store, ptype, oldRules, newRules) IN
    /\ store' = r.tbl
    /\ saved' = (saved /\ r.tbl = store)
    /\ last' = [op |-> "updateBatch", ptype |-> ptype, oldRules |-> oldRules,
                newRules |-> newRules, pre |-> store, err |-> r.err]
    /\ UNCHANGED <<model, isFiltered, eAdapter, tableVars, ctxVars>>

-----------------------------------------------------------------------------
(* The engine's model, as the adapter uses it                              *)

\* model.HasPolicyEx(sec, key, rule): an error when the model has no
\* assertion for the type, else whether the rule is in the model.
HasPolicyEx(m, key, rule) ==
    IF key \notin DOMAIN m THEN [err |-> ErrModel, ok |-> FALSE]
    ELSE [err |-> ErrNil, ok |-> rule \in Range(m[key])]

\* persist.LoadPolicyArray(p, model): adds p[1:] under the type p[0] unless
\* the model has it already.
LoadPolicyArray(p, m) ==
    LET h == HasPolicyEx(m, p[1], Tail(p)) IN
    IF h.err # ErrNil THEN [err |-> h.err, model |-> m]
    ELSE IF h.ok THEN [err |-> ErrNil, model |-> m]
    ELSE [err |-> ErrNil, model |-> [m EXCEPT ![p[1]] = Append(@, Tail(p))]]

\* loadPolicyLine: decode the row and hand the tuple to the model.
loadPolicyLine(line, m) == LoadPolicyArray(rowToRule(line), m)

\* The loop of Preview with the swap left out.
RECURSIVE previewLoop_NoSwap(_, _, _, _)
previewLoop_NoSwap(rules, m, i, j) ==
    IF i > Len(rules) THEN [err |-> ErrNil, rules |-> rules, j |-> j]
    ELSE LET p == rowToRule(rules[i])
             h == HasPolicyEx(m, p[1], Tail(p))
         IN  IF h.err # ErrNil THEN [err |-> h.err, rules |-> rules, j |-> j]
             ELSE IF h.ok THEN previewLoop_NoSwap(rules, m, i + 1, j + 1)
             ELSE previewLoop_NoSwap(rules, m, i + 1, j)

\* The loop of Preview from index i on: a row whose tuple the model has is
\* swapped to position j and j advances; an error of the model ends the loop.
RECURSIVE previewLoop(_, _, _, _)
previewLoop(rules, m, i, j) ==
    IF i > Len(rules) THEN [err |-> ErrNil, rules |-> rules, j |-> j]
    ELSE LET rule == rules[i]
             p == rowToRule(rule)
             h == HasPolicyEx(m, p[1], Tail(p))
         IN  IF h.err # ErrNil THEN [err |-> h.err, rules |-> rules, j |-> j]
             ELSE IF h.ok
             THEN previewLoop([rules EXCEPT ![j] = rule, ![i] = rules[j]], m, i + 1, j + 1)
             ELSE previewLoop(rules, m, i + 1, j)

\* Preview: the rows left after the loop are rules[j:].
Preview(rules, m) ==
    LET r == previewLoop(rules, m, 1, 1) IN
    IF r.err # ErrNil THEN [err |-> r.err, rules |-> rules]
    ELSE [err |-> ErrNil, rules |-> SubSeq(r.rules, r.j, Len(r.rules))]

\* The loops over the fetched rows in loadPolicy and loadFilteredPolicy:
\* every row is loaded in turn, the first error ends the load.
RECURSIVE loadLines(_, _, _)
loadLines(lines, m, i) ==
    IF i > Len(lines) THEN [err |-> ErrNil, model |-> m]
    ELSE LET r == loadPolicyLine(lines[i], m) IN
         IF r.err # ErrNil THEN r ELSE loadLines(lines, r.model, i + 1)

\* loadPolicy: all rows in ID order, the pre-check, then the load.
loadPolicy(tbl, m, fail) ==
    IF fail THEN [err |-> ErrStore, model |-> m, kept |-> <<>>]
    ELSE LET pv == Preview(tbl, m) IN
         IF pv.err # ErrNil THEN [err |-> pv.err, model |-> m, kept |-> <<>>]
         ELSE LET r == loadLines(pv.rules, m, 1) IN
              [err |-> r.err, model |-> r.model, kept |-> pv.rules]

\* filterQuery constraining every column, also by an empty list.
filterQuery_NoLenCheck(filter, row) == \A i \in 1..NumCols : row[i] \in filter[i]

\* filterQuery: for every column with a non-empty constraint list, column in (list).
filterQuery(filter, row) ==
    \A i \in 1..NumCols : filter[i] # {} => row[i] \in filter[i]

\* The loop over the filters in loadFilteredPolicy: one query per filter, its
\* rows loaded in ID order.
RECURSIVE loadFilters(_, _, _, _)
loadFilters(tbl, filters, m, k) ==
    IF k > Len(filters) THEN [err |-> ErrNil, model |-> m]
    ELSE LET lines == SelectSeq(tbl, LAMBDA r : filterQuery(filters[k], r))
             r == loadLines(lines, m, 1)
         IN  IF r.err # ErrNil THEN r ELSE loadFilters(tbl, filters, r.model, k + 1)

\* The shapes of filter argument loadFilteredPolicy accepts.
FilterShapes == {"Filter", "*Filter", "[]Filter", "BatchFilter", "*BatchFilter"}

\* loadFilteredPolicy: the type switch, the loop over the filters, the flag.
\* queried tells whether the store was accessed.
loadFilteredPolicy(tbl, m, filtered, filter, fail) ==
    IF filter.shape \notin FilterShapes
    THEN [err |-> ErrFilterType, model |-> m, isFiltered |-> filtered, queried |-> FALSE]
    ELSE IF fail /\ filter.filters # <<>>
    THEN [err |-> ErrStore, model |-> m, isFiltered |-> filtered, queried |-> TRUE]
    ELSE LET r == loadFilters(tbl, filter.filters, m, 1) IN
         [err |-> r.err, model |-> r.model,
          isFiltered |-> IF r.err = ErrNil THEN TRUE ELSE filtered,
          queried |-> filter.filters # <<>>]

-----------------------------------------------------------------------------
(* Full save                                                               *)

\* flushEvery of savePolicy: a bulk insert is issued once more than this many
\* rows are pending.  The source sets 1000; the model scales it down so that
\* a save of a few rules is split into several bulk inserts.
flushEvery == 1

\* truncateTable: every dialect's statement empties the table.
truncateTable(tbl) == <<>>

\* The rules of a family in the order the two range loops visit them: the
\* types in the (unspecified) map order given, each type's rules in order.
RECURSIVE familyRules(_, _, _)
familyRules(m, order, k) ==
    IF k > Len(order) THEN <<>>
    ELSE [i \in 1..Len(m[order[k]]) |-> <<order[k]>> \o m[order[k]][i]]
         \o familyRules(m, order, k + 1)

\* The two loops of savePolicy over the typed rules seq from index i on, with
\* the pending rows lines and the transaction's view txTbl of the table.
RECURSIVE saveLoop(_, _, _, _, _)
saveLoop(seq, i, lines, txTbl, failCreate) ==
    IF i > Len(seq) THEN [err |-> ErrNil, lines |-> lines, tbl |-> txTbl]
    ELSE LET pending == Append(lines, savePolicyLine(seq[i][1], Tail(seq[i]))) IN
         IF Len(pending) > flushEvery
         THEN LET c == IF failCreate THEN [err |-> ErrStore, tbl |-> txTbl]
                       ELSE CreateBatch(txTbl, pending) IN
              IF c.err # ErrNil THEN [err |-> c.err, lines |-> pending, tbl |-> txTbl]
              ELSE saveLoop(seq, i + 1, <<>>, c.tbl, failCreate)
         ELSE saveLoop(seq, i + 1, pending, txTbl, failCreate)

\* savePolicy without the insert of the rows still pending after the loops.
savePolicy_NoLastFlush(tbl, m, pOrder, gOrder, failAt) ==
    IF failAt = "truncate" THEN [err |-> ErrStore, tbl |-> tbl]
    ELSE LET emptied == truncateTable(tbl)
             seq == familyRules(m, pOrder, 1) \o familyRules(m, gOrder, 1)
             l == saveLoop(seq, 1, <<>>, emptied, failAt = "create")
         IN  IF l.err # ErrNil THEN [err |-> l.err, tbl |-> emptied]
             ELSE IF failAt = "commit" THEN [err |-> ErrStore, tbl |-> emptied]
             ELSE [err |-> ErrNil, tbl |-> l.tbl]

\* savePolicy: begin a transaction tx on db; truncate through db itself, so
\* outside tx; insert every rule through tx in chunks; commit.  A rollback
\* of tx undoes the inserts of tx and nothing else.
savePolicy(tbl, m, pOrder, gOrder, failAt) ==
    IF failAt = "truncate" THEN [err |-> ErrStore, tbl |-> tbl]
    ELSE LET emptied == truncateTable(tbl)
             seq == familyRules(m, pOrder, 1) \o familyRules(m, gOrder, 1)
             l == saveLoop(seq, 1, <<>>, emptied, failAt = "create")
             f == IF l.err # ErrNil \/ Len(l.lines) = 0 THEN l
                  ELSE IF failAt = "create" THEN [err |-> ErrStore, tbl |-> l.tbl]
                  ELSE CreateBatch(l.tbl, l.lines)
         IN  IF f.err # ErrNil THEN [err |-> f.err, tbl |-> emptied]
             ELSE IF failAt = "commit" THEN [err |-> ErrStore, tbl |-> emptied]
             ELSE [err |-> ErrNil, tbl |-> f.tbl]

-----------------------------------------------------------------------------
(* Transaction wrapper                                                     *)

\* e.LoadPolicy(): the engine loads from the table into a cleared copy of its
\* model through the adapter it holds, and keeps its model when the load
\* fails.  Adapter "b" is bound to a transaction that is finished: its
\* queries fail.
engineLoadPolicy(adapter, tbl, m) ==
    IF adapter = "b" THEN [err |-> ErrTxDone, model |-> m]
    ELSE LET r == loadPolicy(tbl, [pt \in DOMAIN m |-> <<>>], FALSE) IN
         IF r.err # ErrNil THEN [err |-> r.err, model |-> m]
         ELSE [err |-> ErrNil, model |-> r.model]

\* The callback fc(copyEnforcer): it adds the rules adds[i..] through the
\* engine, whose adapter is b, bound to the open transaction.  The engine
\* skips a rule its model holds, else inserts through b and, when the insert
\* succeeds, puts the rule into its model.
RECURSIVE callback(_, _, _, _)
callback(txTbl, m, adds, i) ==
    IF i > Len(adds) THEN [tbl |-> txTbl, model |-> m]
    ELSE LET t == adds[i]
             h == HasPolicyEx(m, t[1], Tail(t))
             c == addPolicy(txTbl, t[1], Tail(t))
         IN  IF h.err # ErrNil \/ h.ok \/ c.err # ErrNil
             THEN callback(txTbl, m, adds, i + 1)
             ELSE callback(c.tbl, [m EXCEPT ![t[1]] = Append(@, Tail(t))], adds, i + 1)

\* Transaction returning the error its deferred function ends with.
Transaction_DeferredErr(tbl, m, adds, cbRet, beginFail, commitFail) ==
    IF beginFail
    THEN [err |-> ErrStore, tbl |-> tbl, model |-> m, reloads |-> 0,
          reloadErr |-> ErrNil, setAdapter |-> FALSE, txTbl |-> tbl]
    ELSE LET cb == callback(tbl, m, adds, 1)
             err == IF cbRet # ErrNil THEN cbRet
                    ELSE IF commitFail THEN ErrStore ELSE ErrNil
             reload == engineLoadPolicy("b", tbl, cb.model)
         IN  IF err # ErrNil
             THEN [err |-> IF err = Panic THEN Panic ELSE reload.err, tbl |-> tbl,
                   model |-> reload.model, reloads |-> 1, reloadErr |-> reload.err,
                   setAdapter |-> TRUE, txTbl |-> cb.tbl]
             ELSE [err |-> ErrNil, tbl |-> cb.tbl, model |-> cb.model, reloads |-> 0,
                   reloadErr |-> ErrNil, setAdapter |-> TRUE, txTbl |-> cb.tbl]

\* Adapter.Transaction: begin tx; install adapter b (bound to tx) in the
\* engine; run the callback; commit when it returns nil.  The deferred
\* function, when the callback panicked or err is set, rolls tx back and
\* calls e.LoadPolicy() once, whose error is logged.  The value returned is
\* the one of the return statement: the callback's error or the commit's.
\* cbRet is what the callback ends with: nil, an error, or a panic.
Transaction(tbl, m, adds, cbRet, beginFail, commitFail) ==
    IF beginFail
    THEN [err |-> ErrStore, tbl |-> tbl, model |-> m, reloads |-> 0,
          reloadErr |-> ErrNil, setAdapter |-> FALSE, txTbl |-> tbl]
    ELSE LET cb == callback(tbl, m, adds, 1)
             err == IF cbRet # ErrNil THEN cbRet
                    ELSE IF commitFail THEN ErrStore ELSE ErrNil
             reload == engineLoadPolicy("b", tbl, cb.model)
         IN  IF err # ErrNil
             THEN [err |-> err, tbl |-> tbl, model |-> reload.model, reloads |-> 1,
                   reloadErr |-> reload.err, setAdapter |-> TRUE, txTbl |-> cb.tbl]
             ELSE [err |-> ErrNil, tbl |-> cb.tbl, model |-> cb.model, reloads |-> 0,
                   reloadErr |-> ErrNil, setAdapter |-> TRUE, txTbl |-> cb.tbl]

\* ContextAdapter.TransactionCtx: the connection is looked up in the
\* context; begin tx; run the callback with tx; when it returns nil, commit
\* and return tx.Error, which leaves err nil.  The deferred function, when
\* the callback panicked or err is set, rolls tx back and calls the engine's
\* reload once.  The engine keeps the adapter it holds.
TransactionCtx(adapter, tbl, m, adds, cbRet, hasDB, beginFail, commitFail) ==
    IF ~hasDB \/ beginFail
    THEN [err |-> IF ~hasDB THEN CtxWithoutDBError ELSE ErrStore,
          tbl |-> tbl, model |-> m, reloads |-> 0, rollbacks |-> 0,
          called |-> FALSE]
    ELSE LET cb == callback(tbl, m, adds, 1)
             reload == engineLoadPolicy(adapter, tbl, cb.model)
         IN  IF cbRet # ErrNil
             THEN [err |-> cbRet, tbl |-> tbl, model |-> reload.model,
                   reloads |-> 1, rollbacks |-> 1, called |-> TRUE]
             ELSE IF commitFail
             THEN [err |-> ErrStore, tbl |-> tbl, model |-> cb.model,
                   reloads |-> 0, rollbacks |-> 0, called |-> TRUE]
             ELSE [err |-> ErrNil, tbl |-> cb.tbl, model |-> cb.model,
                   reloads |-> 0, rollbacks |-> 0, called |-> TRUE]

-----------------------------------------------------------------------------
(* Inputs of the explored runs                                             *)

EmptyModel == [pt \in {"p", "p2", "g"} |-> <<>>]

\* Strings a codec input is drawn from.
CodecAlphabet == {"", "a", "b"}

\* Rule tuples of length 1..NumCols with a non-empty type tag.
CodecTuples ==
    {<<"p">> \o v : v \in UNION {[1..n -> CodecAlphabet] : n \in 0..(NumCols - 1)}}

\* The rule tuples the calls are made with: two plain p rules and a variant,
\* a rule with an empty value between non-empty ones, a g rule and the same
\* g rule with a trailing empty value, a rule of a second type of the p family.
TypedRules ==
    { <<"p", "alice", "data1", "read">>,
      <<"p", "bob", "data2", "write">>,
      <<"p", "alice", "data1", "write">>,
      <<"p", "alice", "", "read">>,
      <<"g", "alice", "admin">>,
      <<"g", "alice", "admin", "">>,
      <<"p2", "alice", "data1", "read">> }

PTypes == {t[1] : t \in TypedRules}

RulesOf(ptype) == {Tail(t) : t \in {u \in TypedRules : u[1] = ptype}}

\* Sequences of at most n elements of S.
SeqUpTo(S, n) == UNION {[1..k -> S] : k \in 0..n}

\* The batches a bulk call carries: up to two rules of the type, repeats included.
BatchesOf(ptype) == SeqUpTo(RulesOf(ptype), 2)

\* The new rules an update-filtered call carries.
NewPoliciesOf(ptype) == SeqUpTo(RulesOf(ptype), 1)

\* Windows: an offset before the columns, the -1 shortcut, offsets inside the
\* columns, an offset behind them; value lists of up to two values, empty
\* strings included.
FieldIndexes == {-2, -1, 0, 1, 8}

WindowStrings == {"", "alice", "data1"}

FieldValueLists == SeqUpTo(WindowStrings, 2)

\* The types the filtered calls are made for.
FilteredPTypes == {"p", "g"}

-----------------------------------------------------------------------------
(* Specification of the codec: a tuple is encoded, then decoded            *)

InitCodec ==
    /\ store = <<>>
    /\ model = EmptyModel
    /\ isFiltered = FALSE
    /\ eAdapter = "a"
    /\ saved = FALSE
    /\ last = Idle
    /\ DefaultTable
    /\ NoContextCall

\* savePolicyLine(t[0], t[1:]) followed by the decoding of loadPolicyLine.
CodecRoundTrip ==
    \E t \in CodecTuples :
        LET line == savePolicyLine(t[1], Tail(t)) IN
        /\ last.op = "idle"
        /\ last' = [op |-> "codec", t |-> t, line |-> line, rule |-> rowToRule(line)]
        /\ UNCHANGED <<store, model, isFiltered, eAdapter, saved, tableVars, ctxVars>>

NextCodec == CodecRoundTrip \/ Return

SpecCodec == InitCodec /\ [][NextCodec]_vars

\* The tuple without its trailing empty strings.
trimTrailingEmpty(t) ==
    LET keep == {i \in 1..Len(t) : t[i] # ""}
        n == IF keep = {} THEN 0 ELSE CHOOSE i \in keep : \A j \in keep : j <= i
    IN  SubSeq(t, 1, n)

\* C1: for every rule tuple t of length 1..9 with a non-empty type tag,
\* decoding the row built from t gives t without its trailing empty strings;
\* every interior empty string keeps its position.
C1_RoundTrip ==
    last.op = "codec" =>
        /\ last.rule = trimTrailingEmpty(last.t)
        /\ \A i \in 1..Len(last.rule) : last.rule[i] = last.t[i]

\* A tuple with an interior empty string and trailing empty strings was
\* encoded and decoded.
C1_Witness ==
    /\ last.op = "codec"
    /\ Len(last.t) = NumCols
    /\ last.t[3] = "" /\ last.t[4] = "a" /\ last.t[5] = ""
    /\ last.t[NumCols] = "" /\ last.t[NumCols - 1] = ""
    /\ Len(last.rule) = 4

-----------------------------------------------------------------------------
(* Specification of the mutation executor on one table                     *)

Init ==
    /\ store = <<>>
    /\ model = EmptyModel
    /\ isFiltered = FALSE
    /\ eAdapter = "a"
    /\ saved = FALSE
    /\ last = Idle
    /\ DefaultTable
    /\ NoContextCall

CallAddPolicy ==
    /\ last.op = "idle"
    /\ \E t \in TypedRules, fail \in BOOLEAN : AddPolicy(t[1], Tail(t), fail)

CallAddPolicies ==
    /\ last.op = "idle"
    /\ \E ptype \in PTypes, fail \in BOOLEAN :
        \E rules \in BatchesOf(ptype) : AddPolicies(ptype, rules, fail)

CallRemoveFilteredPolicy ==
    /\ last.op = "idle"
    /\ \E ptype \in FilteredPTypes, fieldIndex \in FieldIndexes,
          fieldValues \in FieldValueLists, fail \in BOOLEAN :
        RemoveFilteredPolicy(ptype, fieldIndex, fieldValues, fail)

CallUpdateFilteredPolicies ==
    /\ last.op = "idle"
    /\ \E ptype \in FilteredPTypes, fieldIndex \in FieldIndexes,
          fieldValues \in FieldValueLists, failAt \in {"none", "create", "commit"} :
        \E newPolicies \in NewPoliciesOf(ptype) :
            UpdateFilteredPolicies(ptype, newPolicies, fieldIndex, fieldValues, failAt)

Next ==
    \/ CallAddPolicy
    \/ CallAddPolicies
    \/ CallRemoveFilteredPolicy
    \/ CallUpdateFilteredPolicies
    \/ Return

Spec == Init /\ [][Next]_vars

-----------------------------------------------------------------------------
(* Specification of load and save: the table against the engine's model    *)

\* Rules the adapter is asked to add in these runs; "p3" is a type the
\* engine's model has no assertion for.
LoadRules ==
    { <<"p", "alice", "data1", "read">>,
      <<"p", "alice", "", "read">>,
      <<"g", "alice", "admin">>,
      <<"p2", "alice", "data1", "read">>,
      <<"p3", "alice", "data1", "read">> }

\* Rules the engine puts into its model in these runs.
ModelRules ==
    { <<"p", "alice", "data1", "read">>,
      <<"g", "alice", "admin">>,
      <<"g", "alice", "admin", "">>,
      <<"p2", "alice", "data1", "read">> }

ModelSize(m) == Len(m["p"]) + Len(m["p2"]) + Len(m["g"])

\* The rule tuples of a model, type first.
ModelTuples(m) == UNION {{<<pt>> \o m[pt][i] : i \in 1..Len(m[pt])} : pt \in DOMAIN m}

\* A filter constraining nothing; filters are written as their differences from it.
NoFilter == [i \in 1..NumCols |-> {}]

Filters ==
    { NoFilter,
      [NoFilter EXCEPT ![1] = {"p", "p3"}, ![4] = {"read"}],
      [NoFilter EXCEPT ![2] = {"alice"}, ![3] = {"", "admin"}] }

\* The filter arguments of the explored calls, each with whether the store
\* fails the query: one filter, a list of up to two, every other accepted
\* shape, and a shape that is not accepted.
FilterCalls ==
    {<<[shape |-> "Filter", filters |-> <<f>>], FALSE>> : f \in Filters}
    \cup {<<[shape |-> "[]Filter", filters |-> fs], FALSE>> : fs \in SeqUpTo(Filters, 2)}
    \cup {<<[shape |-> sh, filters |-> <<[NoFilter EXCEPT ![1] = {"p"}]>>], fail>> :
             sh \in {"*Filter", "BatchFilter", "*BatchFilter", "string"},
             fail \in BOOLEAN}

\* The engine adds a rule to its model without persisting it.
ModelAddPolicy(t) ==
    /\ ModelSize(model) < MaxModel
    /\ ~HasPolicyEx(model, t[1], Tail(t)).ok
    /\ model' = [model EXCEPT ![t[1]] = Append(@, Tail(t))]
    /\ saved' = FALSE
    /\ last' = [op |-> "modelAdd", t |-> t]
    /\ UNCHANGED <<store, isFiltered, eAdapter, tableVars, ctxVars>>

\* LoadPolicy into the engine's model, or into the empty model of a second engine.
LoadPolicy(fresh, fail) ==
    LET target == IF fresh THEN EmptyModel ELSE model
        r == loadPolicy(store, target, fail) IN
    /\ model' = IF fresh THEN model ELSE r.model
    /\ saved' = (saved /\ model' = model)
    /\ last' = [op |-> "load", fresh |-> fresh, pre |-> store, preModel |-> target,
                kept |-> r.kept, result |-> r.model, saved |-> saved, err |-> r.err]
    /\ UNCHANGED <<store, isFiltered, eAdapter, tableVars, ctxVars>>

LoadFilteredPolicy(filter, fail) ==
    LET r == loadFilteredPolicy(store, model, isFiltered, filter, fail) IN
    /\ model' = r.model
    /\ isFiltered' = r.isFiltered
    /\ saved' = (saved /\ model' = model)
    /\ last' = [op |-> "loadFiltered", filter |-> filter, pre |-> store,
                preModel |-> model, preFiltered |-> isFiltered, result |-> r.model,
                queried |-> r.queried, err |-> r.err]
    /\ UNCHANGED <<store, eAdapter, tableVars, ctxVars>>

SavePolicy(pOrder, gOrder, failAt) ==
    LET r == savePolicy(store, model, pOrder, gOrder, failAt) IN
    /\ store' = r.tbl
    /\ saved' = (r.err = ErrNil)
    /\ last' = [op |-> "save", pre |-> store, m |-> model, pOrder |-> pOrder,
                failAt |-> failAt, err |-> r.err]
    /\ UNCHANGED <<model, isFiltered, eAdapter, tableVars, ctxVars>>

CallLoadAddPolicy ==
    /\ last.op = "idle"
    /\ \E t \in LoadRules : AddPolicy(t[1], Tail(t), FALSE)

CallModelAddPolicy ==
    /\ last.op = "idle"
    /\ \E t \in ModelRules : ModelAddPolicy(t)

CallLoadPolicy ==
    /\ last.op = "idle"
    /\ \E fresh \in BOOLEAN, fail \in BOOLEAN : LoadPolicy(fresh, fail)

CallLoadFilteredPolicy ==
    /\ last.op = "idle"
    /\ \E c \in FilterCalls : LoadFilteredPolicy(c[1], c[2])

CallSavePolicy ==
    /\ last.op = "idle"
    /\ \E pOrder \in {<<"p", "p2">>, <<"p2", "p">>},
          failAt \in {"none", "truncate", "create", "commit"} :
        SavePolicy(pOrder, <<"g">>, failAt)

NextLoad ==
    \/ CallLoadAddPolicy
    \/ CallModelAddPolicy
    \/ CallLoadPolicy
    \/ CallLoadFilteredPolicy
    \/ CallSavePolicy
    \/ Return

SpecLoad == Init /\ [][NextLoad]_vars

-----------------------------------------------------------------------------
(* Properties of load and save                                             *)

\* The tuples the rows of a table decode to.
Decoded(tbl) == {rowToRule(r) : r \in Range(tbl)}

\* How often the model holds the tuple t.
Occurs(m, t) ==
    IF t[1] \notin DOMAIN m THEN 0
    ELSE Cardinality({i \in 1..Len(m[t[1]]) : m[t[1]][i] = Tail(t)})

NoDuplicates(m) ==
    \A pt \in DOMAIN m : \A i, j \in 1..Len(m[pt]) : i # j => m[pt][i] # m[pt][j]

\* C2 as stated: after a successful save of the model M and a successful full
\* load into an empty model, the loaded model holds exactly the rules of M,
\* none twice, whatever the order in which the rule types are visited.
C2_SaveLoadExact ==
    (last.op = "load" /\ last.fresh /\ last.saved /\ last.err = ErrNil) =>
        /\ ModelTuples(last.result) = ModelTuples(model)
        /\ NoDuplicates(last.result)

\* C2 as amended: the loaded model holds exactly the rules of M with their
\* trailing empty strings removed, none twice, whatever the order in which
\* the rule types are visited.
C2_SaveLoadTrimmed ==
    (last.op = "load" /\ last.fresh /\ last.saved /\ last.err = ErrNil) =>
        /\ ModelTuples(last.result) = {trimTrailingEmpty(t) : t \in ModelTuples(model)}
        /\ NoDuplicates(last.result)

\* A model of two rules, one of them ending in an empty string, was saved
\* and loaded into an empty model.
C2_Witness ==
    /\ last.op = "load" /\ last.fresh /\ last.saved /\ last.err = ErrNil
    /\ ModelSize(model) = 2
    /\ \E t \in ModelTuples(model) : t[Len(t)] = ""
    /\ ModelSize(last.result) = 2

\* C3: a successful full load keeps, in its pre-check, exactly the rows whose
\* tuple the model does not hold yet; afterwards the model holds its former
\* rules and every stored rule, each stored rule once; a second full load
\* changes nothing.
C3_LoadIdempotent ==
    (last.op = "load" /\ last.err = ErrNil) =>
        /\ Range(last.kept) =
               {r \in Range(last.pre) : rowToRule(r) \notin ModelTuples(last.preModel)}
        /\ Len(last.kept) = Cardinality(Range(last.kept))
        /\ ModelTuples(last.result) = ModelTuples(last.preModel) \cup Decoded(last.pre)
        /\ \A r \in Range(last.pre) : Occurs(last.result, rowToRule(r)) = 1
        /\ \A pt \in DOMAIN last.preModel :
               SubSeq(last.result[pt], 1, Len(last.preModel[pt])) = last.preModel[pt]
        /\ loadPolicy(last.pre, last.result, FALSE).model = last.result

\* A full load met a table whose first row the model did not hold and whose
\* second row it held, and added the first.
C3_Witness ==
    /\ last.op = "load" /\ last.err = ErrNil
    /\ Len(last.pre) >= 2
    /\ rowToRule(last.pre[1]) \notin ModelTuples(last.preModel)
    /\ rowToRule(last.pre[2]) \in ModelTuples(last.preModel)
    /\ Len(last.kept) >= 1
    /\ last.result # last.preModel

\* Whether the row satisfies the filter: every column with a non-empty
\* constraint set holds a member of the set.
FilterSelects(f, row) == \A i \in 1..NumCols : f[i] = {} \/ row[i] \in f[i]

\* C9: a successful filtered load with one or more filters adds to the model
\* the tuples of exactly the rows that satisfy one of the filters, and sets
\* the filtered flag; an argument of an unsupported shape is answered with an
\* error, without a query, the model and the flag unchanged.
C9_FilteredLoad ==
    last.op = "loadFiltered" =>
        /\ last.filter.shape \notin FilterShapes =>
               /\ last.err = ErrFilterType
               /\ ~last.queried
               /\ model = last.preModel
               /\ isFiltered = last.preFiltered
        /\ (last.filter.shape \in FilterShapes /\ Len(last.filter.filters) >= 1
              /\ last.err = ErrNil) =>
               /\ ModelTuples(model) =
                      ModelTuples(last.preModel)
                      \cup {rowToRule(r) : r \in
                               {x \in Range(last.pre) :
                                   \E k \in 1..Len(last.filter.filters) :
                                       FilterSelects(last.filter.filters[k], x)}}
               /\ isFiltered

\* A filtered load with two filters loaded some of the rows and left out others.
C9_Witness ==
    /\ last.op = "loadFiltered" /\ last.err = ErrNil
    /\ last.filter.shape = "[]Filter" /\ Len(last.filter.filters) = 2
    /\ last.filter.filters[1] # last.filter.filters[2]
    /\ ~last.preFiltered /\ isFiltered
    /\ model # last.preModel
    /\ \E r \in Range(last.pre) : rowToRule(r) \notin ModelTuples(model)

\* C10: when a bulk insert of a full save fails, the save returns the error
\* and the table holds exactly the rows it held before the save.
C10_SaveAtomic ==
    (last.op = "save" /\ (last.failAt = "create" \/ last.err = ErrUnique)) =>
        /\ last.err # ErrNil
        /\ store = last.pre

-----------------------------------------------------------------------------
(* Properties of the mutation executor                                     *)

\* Whether the window selects the row: the row has the type and, for every
\* column the window covers with a non-empty value, that value.
WindowSelects(ptype, fieldIndex, fieldValues, row) ==
    /\ row[1] = ptype
    /\ \A k \in 0..(NumCols - 2) :
           (fieldIndex <= k /\ k < fieldIndex + Len(fieldValues)
              /\ fieldValues[k - fieldIndex + 1] # "")
           => row[k + 2] = fieldValues[k - fieldIndex + 1]

\* C5: a successful update-filtered call returns exactly the rules of the rows
\* the window selected before the call, and leaves in the table exactly the
\* rows the window did not select together with one row per new rule.
C5_UpdateFiltered ==
    (last.op = "updateFiltered" /\ last.err = ErrNil) =>
        LET sel(r) == WindowSelects(last.ptype, last.fieldIndex, last.fieldValues, r)
            matched == SelectSeq(last.pre, sel)
            others == SelectSeq(last.pre, LAMBDA r : ~sel(r))
            newP == {savePolicyLine(last.ptype, last.newPolicies[i]) :
                        i \in 1..Len(last.newPolicies)}
        IN  /\ Range(last.rules) = Decoded(matched)
            /\ Len(last.rules) = Len(matched)
            /\ Range(store) = Range(others) \cup newP
            /\ Len(store) = Len(others) + Len(last.newPolicies)

\* C6: a successful remove-filtered call with offset -1 deletes every row of
\* the type and leaves every other row as it was, whatever values it is
\* given; the values are never validated.
C6_RemoveAllOfType ==
    (last.op = "removeFiltered" /\ last.fieldIndex = -1) =>
        /\ last.err # ErrQueryField
        /\ last.err = ErrNil =>
               store = SelectSeq(last.pre, LAMBDA r : r[1] # last.ptype)

\* A remove-filtered call with offset -1 and non-empty values deleted a row
\* that has none of the values and kept a row of another type.
C6_Witness ==
    /\ last.op = "removeFiltered" /\ last.fieldIndex = -1 /\ last.err = ErrNil
    /\ Len(last.fieldValues) = 2 /\ last.fieldValues[2] = "alice"
    /\ \E r \in Range(last.pre) : r[1] = last.ptype /\ r[2] = "bob"
    /\ store # <<>>
    /\ Len(store) < Len(last.pre)

\* C7: a remove-filtered call with an offset other than -1 and no non-empty
\* value returns the validation error and leaves the table unchanged.
C7_AllEmptyWindow ==
    (last.op = "removeFiltered" /\ last.fieldIndex # -1
       /\ \A i \in 1..Len(last.fieldValues) : last.fieldValues[i] = "") =>
        /\ last.err = ErrQueryField
        /\ store = last.pre

\* A remove-filtered call with offset 0 and two empty values met a table
\* holding rows of the type.
C7_Witness ==
    /\ last.op = "removeFiltered" /\ last.fieldIndex = 0
    /\ last.fieldValues = <<"", "">>
    /\ \E r \in Range(last.pre) : r[1] = last.ptype
    /\ last.err = ErrQueryField

\* C8: an add-batch call with a rule whose row is already stored returns an
\* error and leaves the table exactly as it was.
C8_AddBatchAtomic ==
    (last.op = "addBatch"
       /\ \E i \in 1..Len(last.rules) :
              savePolicyLine(last.ptype, last.rules[i]) \in Range(last.pre)) =>
        /\ last.err # ErrNil
        /\ store = last.pre

\* An add-batch call carried a rule not stored yet, followed by a rule
\* already stored, and failed on the uniqueness constraint.
C8_Witness ==
    /\ last.op = "addBatch" /\ last.err = ErrUnique
    /\ Len(last.rules) = 2
    /\ savePolicyLine(last.ptype, last.rules[1]) \notin Range(last.pre)
    /\ savePolicyLine(last.ptype, last.rules[2]) \in Range(last.pre)

\* C11: an update-filtered call whose values are all the empty string
\* returns the validation error and leaves the table as it was: no row is
\* deleted and none inserted.
C11_UpdateAllEmptyWindow ==
    (last.op = "updateFiltered" /\ last.fieldValues # <<>>
       /\ \A i \in 1..Len(last.fieldValues) : last.fieldValues[i] = "") =>
        /\ last.err = ErrQueryField
        /\ store = last.pre

\* C18: a remove-filtered call with an offset other than -1 either returns
\* the validation error and leaves the table as it was, or the row its
\* delete predicate is built from has a non-empty value column.
C18_NoUnconstrainedDelete ==
    (last.op = "removeFiltered" /\ last.fieldIndex # -1) =>
        \/ last.err = ErrQueryField /\ store = last.pre
        \/ \E i \in 2..NumCols :
               removeWindowLine([getTableInstance EXCEPT ![1] = last.ptype],
                                last.fieldIndex, last.fieldValues)[i] # ""

\* C21: the tuples an update-filtered call returns are, one for one and in
\* the order of the rows its query selected, the decodings rowToRule of
\* those rows: an empty value between non-empty ones keeps its position.
C21_ReplacedRulesDecoded ==
    (last.op = "updateFiltered" /\ last.rules # <<>>) =>
        LET line == updateWindowLine([getTableInstance EXCEPT ![1] = last.ptype],
                                     last.fieldIndex, last.fieldValues)
            oldP == SelectSeq(last.pre, LAMBDA r : queryString(line, r))
        IN  /\ Len(last.rules) = Len(oldP)
            /\ \A i \in 1..Len(oldP) : last.rules[i] = rowToRule(oldP[i])

-----------------------------------------------------------------------------
(* Specification of the transaction wrapper                                *)

\* Rules added to the table directly and by the callbacks in these runs.
TxRules ==
    { <<"p", "alice", "data1", "read">>,
      <<"p", "bob", "data2", "write">>,
      <<"g", "alice", "admin">> }

\* The engine reloads its model through the adapter it holds.
EngineLoadPolicy ==
    LET r == engineLoadPolicy(eAdapter, store, model) IN
    /\ model' = r.model
    /\ saved' = (saved /\ model' = model)
    /\ last' = [op |-> "engineLoad", adapter |-> eAdapter, err |-> r.err]
    /\ UNCHANGED <<store, isFiltered, eAdapter, tableVars, ctxVars>>

RunTransaction(adds, cbRet, beginFail, commitFail) ==
    LET r == Transaction(store, model, adds, cbRet, beginFail, commitFail) IN
    /\ Len(r.tbl) <= MaxRows
    /\ Len(r.txTbl) <= MaxRows
    /\ store' = r.tbl
    /\ model' = r.model
    /\ eAdapter' = IF r.setAdapter THEN "b" ELSE eAdapter
    /\ saved' = (saved /\ store' = store /\ model' = model)
    /\ last' = [op |-> "transaction", adds |-> adds, cbRet |-> cbRet, pre |-> store,
                called |-> r.setAdapter, preAdapter |-> eAdapter,
                preModel |-> model, txTbl |-> r.txTbl, reloads |-> r.reloads,
                reloadErr |-> r.reloadErr, err |-> r.err]
    /\ UNCHANGED <<isFiltered, tableVars, ctxVars>>

RunTransactionCtx(adds, cbRet, hasDB, beginFail, commitFail) ==
    LET r == TransactionCtx(eAdapter, store, model, adds, cbRet, hasDB, beginFail,
                            commitFail) IN
    /\ Len(r.tbl) <= MaxRows
    /\ store' = r.tbl
    /\ model' = r.model
    /\ saved' = (saved /\ store' = store /\ model' = model)
    /\ last' = [op |-> "transactionCtx", adds |-> adds, cbRet |-> cbRet,
                commitFail |-> commitFail, called |-> r.called, pre |-> store,
                reloads |-> r.reloads, rollbacks |-> r.rollbacks, err |-> r.err]
    /\ UNCHANGED <<isFiltered, eAdapter, tableVars, ctxVars>>

CallTxAddPolicy ==
    /\ last.op = "idle"
    /\ \E t \in TxRules : AddPolicy(t[1], Tail(t), FALSE)

CallEngineLoadPolicy ==
    /\ last.op = "idle"
    /\ EngineLoadPolicy

CallTransaction ==
    /\ last.op = "idle"
    /\ \E adds \in SeqUpTo(TxRules, 2), cbRet \in {ErrNil, ErrCallback, Panic},
          beginFail \in BOOLEAN, commitFail \in BOOLEAN :
        RunTransaction(adds, cbRet, beginFail, commitFail)

CallTransactionCtx ==
    /\ last.op = "idle"
    /\ \E adds \in SeqUpTo(TxRules, 1), cbRet \in {ErrNil, ErrCallback, Panic},
          hasDB \in BOOLEAN, beginFail \in BOOLEAN, commitFail \in BOOLEAN :
        RunTransactionCtx(adds, cbRet, hasDB, beginFail, commitFail)

NextTx ==
    \/ CallTxAddPolicy
    \/ CallEngineLoadPolicy
    \/ CallTransaction
    \/ CallTransactionCtx
    \/ Return

SpecTx == Init /\ [][NextTx]_vars

\* C4: when the callback of a transaction is called (the transaction began),
\* adds rules and returns an error,
\* then after the call the table holds what it held before, the engine's
\* reload was called exactly once, and the caller has the callback's error,
\* whether or not the reload failed.
C4_RollbackOnError ==
    (/\ last.op = "transaction" /\ last.called
     /\ last.cbRet = ErrCallback /\ Len(last.adds) >= 1) =>
        /\ store = last.pre
        /\ last.reloads = 1
        /\ last.err = ErrCallback

\* A callback inserted a row into a non-empty table and returned an error,
\* and the reload that followed failed.
C4_Witness ==
    /\ last.op = "transaction" /\ last.called /\ last.cbRet = ErrCallback
    /\ last.pre # <<>>
    /\ Len(last.txTbl) > Len(last.pre)
    /\ last.reloadErr # ErrNil

\* C12: after a transaction that did not commit because its callback
\* returned an error or its commit failed, the engine's model holds exactly
\* the rules of the table's rows.
C12_ReloadMatchesStore ==
    (/\ last.op = "transaction" /\ last.called
     /\ last.cbRet # Panic /\ last.err # ErrNil) =>
        ModelTuples(model) = Decoded(store)

\* C13: after a transaction that began, committed or rolled back, the
\* engine holds the adapter it held before the call.
C13_AdapterRestored ==
    (last.op = "transaction" /\ last.called) => eAdapter = last.preAdapter

-----------------------------------------------------------------------------
(* Specification of the updates by rule                                    *)

\* The rules of the update runs: rules of three values, a rule that is a
\* prefix of another, a rule with an empty value between non-empty ones.
UpdateRules ==
    { <<"alice", "data1", "read">>,
      <<"bob", "data2", "write">>,
      <<"alice", "data1">>,
      <<"alice", "", "write">> }

CallUpdAddPolicy ==
    /\ last.op = "idle"
    /\ \E rule \in UpdateRules : AddPolicy("p", rule, FALSE)

CallUpdatePolicy ==
    /\ last.op = "idle"
    /\ \E oldRule \in UpdateRules, newPolicy \in UpdateRules, fail \in BOOLEAN :
        UpdatePolicy("p", oldRule, newPolicy, fail)

CallUpdatePolicies ==
    /\ last.op = "idle"
    /\ \E oldRules \in SeqUpTo(UpdateRules, 2), newRules \in SeqUpTo(UpdateRules, 2),
          fail \in BOOLEAN :
        /\ Len(oldRules) >= 1
        /\ Len(newRules) >= Len(oldRules) - 1
        /\ UpdatePolicies("p", oldRules, newRules, fail)

NextUpdate ==
    \/ CallUpdAddPolicy
    \/ CallUpdatePolicy
    \/ CallUpdatePolicies
    \/ Return

SpecUpdate == Init /\ [][NextUpdate]_vars

\* C14: after a successful update(old, new) on a table holding the row of
\* old, the table holds the row of new and no row equal to the row of old.
C14_UpdateOverwrites ==
    (/\ last.op = "update" /\ last.err = ErrNil
     /\ savePolicyLine(last.ptype, last.oldRule) \in Range(last.pre)
     /\ last.oldRule # last.newPolicy) =>
        /\ savePolicyLine(last.ptype, last.newPolicy) \in Range(store)
        /\ savePolicyLine(last.ptype, last.oldRule) \notin Range(store)

-----------------------------------------------------------------------------
(* Context-scoped calls: executeWithContext and executeWithContextEx       *)

\* The rules of the context-scoped runs.
CtxRules == { <<"alice", "data1", "read">>, <<"bob", "data2", "write">> }

\* The calls: AddPolicyCtx and UpdateFilteredPoliciesCtx, with a context
\* that carries the connection (hasDB) or does not.
CtxCalls ==
    {[op |-> "addCtx", ptype |-> "p", rule |-> rule, hasDB |-> hasDB] :
        rule \in CtxRules, hasDB \in BOOLEAN}
    \cup
    {[op |-> "updateFilteredCtx", ptype |-> "p", newPolicies |-> newPolicies,
      fieldIndex |-> 0, fieldValues |-> <<v>>, hasDB |-> TRUE] :
        newPolicies \in SeqUpTo(CtxRules, 1), v \in {"alice", "bob"}}

\* The function a context-scoped wrapper hands to executeWithContext(Ex):
\* the connection is looked up in the context, then the operation runs on it.
\* It gives the (rules, error) pair it returns and the table it leaves.
ctxFn(call, tbl) ==
    IF ~call.hasDB THEN [rules |-> <<>>, err |-> CtxWithoutDBError, tbl |-> tbl]
    ELSE IF call.op = "addCtx"
    THEN LET r == addPolicy(tbl, call.ptype, call.rule) IN
         [rules |-> <<>>, err |-> r.err, tbl |-> r.tbl]
    ELSE LET r == updateFilteredPolicies(tbl, call.ptype, call.newPolicies,
                                         call.fieldIndex, call.fieldValues, "none") IN
         [rules |-> r.rules, err |-> r.err, tbl |-> r.tbl]

\* Rows the call can add to the table.
ctxAdds(call) ==
    IF call.op = "addCtx" THEN 1 ELSE Len(call.newPolicies)

\* Rows the goroutines that have not run their function yet can add.
RECURSIVE pendingAdds(_)
pendingAdds(w) ==
    IF w = 0 THEN 0
    ELSE pendingAdds(w - 1)
         + (IF workers[w].pc = "run" THEN ctxAdds(workers[w].call) ELSE 0)

\* What the caller gets from the value received on done.  executeWithContext
\* returns the error.  executeWithContextEx returns res[0].([][]string),
\* res[1].(error): the assertion on a nil interface value panics.
received(call, res) ==
    IF call.op = "updateFilteredCtx" /\ res.err = ErrNil
    THEN [rules |-> <<>>, err |-> Panic]
    ELSE [rules |-> res.rules, err |-> res.err]

\* The caller makes the unbuffered channel done, starts the goroutine and
\* reaches the select.
CtxCall(call) ==
    /\ caller.pc = "idle"
    /\ Len(store) + pendingAdds(MaxWorkers) + ctxAdds(call) <= MaxRows
    /\ \E w \in 1..MaxWorkers :
        /\ workers[w].pc \in {"none", "exit"}
        /\ \A v \in 1..(w - 1) : workers[v].pc \notin {"none", "exit"}
        /\ workers' = [workers EXCEPT ![w] = [pc |-> "run", call |-> call]]
        /\ caller' = [pc |-> "select", call |-> call, w |-> w]
    /\ ctxDone' = FALSE
    /\ UNCHANGED <<store, model, isFiltered, eAdapter, saved, last, tableVars>>

\* The goroutine runs fn(); its next step is the send on done.
WorkerRun(w) ==
    /\ workers[w].pc = "run"
    /\ LET r == ctxFn(workers[w].call, store) IN
        /\ store' = r.tbl
        /\ workers' = [workers EXCEPT ![w] =
                         [pc |-> "send", call |-> workers[w].call, pre |-> store,
                          res |-> [rules |-> r.rules, err |-> r.err]]]
    /\ saved' = (saved /\ store' = store)
    /\ UNCHANGED <<model, isFiltered, eAdapter, last, tableVars, ctxDone, caller>>

\* case res := <-done: the send of the goroutine and the receive of the
\* select meet; the goroutine ends, the caller returns what it received.
CtxReceive ==
    /\ caller.pc = "select"
    /\ workers[caller.w].pc = "send"
    /\ caller' = [pc |-> "returned", call |-> caller.call, via |-> "done",
                  pre |-> workers[caller.w].pre, res |-> workers[caller.w].res,
                  ret |-> received(caller.call, workers[caller.w].res)]
    /\ workers' = [workers EXCEPT ![caller.w] = [pc |-> "exit"]]
    /\ UNCHANGED <<store, model, isFiltered, eAdapter, saved, last, tableVars, ctxDone>>

\* case <-ctx.Done(): the caller returns ctx.Err(); the goroutine goes on.
CtxCancelled ==
    /\ caller.pc = "select"
    /\ ctxDone
    /\ caller' = [pc |-> "returned", call |-> caller.call, via |-> "ctx",
                  ret |-> [rules |-> <<>>, err |-> ErrCanceled]]
    /\ UNCHANGED <<store, model, isFiltered, eAdapter, saved, last, tableVars,
                   ctxDone, workers>>

\* The select of the caller: one of its two cases.
CtxSelect == CtxReceive \/ CtxCancelled

\* The context of the call in progress is cancelled.
Cancel ==
    /\ caller.pc = "select"
    /\ ~ctxDone
    /\ ctxDone' = TRUE
    /\ UNCHANGED <<store, model, isFiltered, eAdapter, saved, last, tableVars,
                   caller, workers>>

\* The caller has taken what the call returned and is ready for the next.
CtxReturn ==
    /\ caller.pc = "returned"
    /\ caller' = [pc |-> "idle"]
    /\ ctxDone' = FALSE
    /\ UNCHANGED <<store, model, isFiltered, eAdapter, saved, last, tableVars, workers>>

CallCtx == \E call \in CtxCalls : CtxCall(call)

RunWorker == \E w \in 1..MaxWorkers : WorkerRun(w)

NextCtx ==
    \/ CallCtx
    \/ RunWorker
    \/ CtxReceive
    \/ CtxCancelled
    \/ Cancel
    \/ CtxReturn

SpecCtx == Init /\ [][NextCtx]_vars

\* The goroutines and the caller's select are scheduled: a goroutine that
\* can run its function does, a select with a ready case takes one.
SpecCtxLive ==
    /\ Init /\ [][NextCtx]_vars
    /\ WF_vars(CtxSelect)
    /\ \A w \in 1..MaxWorkers : WF_vars(WorkerRun(w))

\* C15: what the caller of a context-scoped call receives is the result of
\* the operation when it received from done, and the context's error when it
\* saw the cancellation; without a cancellation it received from done.
C15_FirstSignalDecides ==
    caller.pc = "returned" =>
        /\ caller.via = "done" => caller.ret = caller.res
        /\ caller.via = "ctx" => ctxDone /\ caller.ret = [rules |-> <<>>, err |-> ErrCanceled]
        /\ ~ctxDone => caller.via = "done"

\* C16: when UpdateFilteredPoliciesCtx received from done, it returns the
\* pair updateFilteredPolicies returns for the same table and arguments.
C16_SameAsUpdateFiltered ==
    (/\ caller.pc = "returned" /\ caller.via = "done"
     /\ caller.call.op = "updateFilteredCtx" /\ caller.call.hasDB) =>
        LET r == updateFilteredPolicies(caller.pre, caller.call.ptype,
                                        caller.call.newPolicies, caller.call.fieldIndex,
                                        caller.call.fieldValues, "none")
        IN  caller.ret = [rules |-> r.rules, err |-> r.err]

\* C20: every goroutine started by a context-scoped call ends.
C20_WorkersTerminate ==
    \A w \in 1..MaxWorkers : (workers[w].pc = "run") ~> (workers[w].pc = "exit")

\* C19: a context-scoped transaction that began and does not commit, in
\* particular one whose callback succeeded and whose commit failed, is rolled
\* back and followed by one reload of the engine; a failed commit's error is
\* what the caller gets.
C19_CtxCommitFailureReloads ==
    (last.op = "transactionCtx" /\ last.called /\ last.err # ErrNil) =>
        /\ last.rollbacks = 1
        /\ last.reloads = 1
        /\ (last.cbRet = ErrNil /\ last.commitFail) => last.err = ErrStore

-----------------------------------------------------------------------------
(* Specification of the adapter's table: prefix, table name, other tables  *)

\* getFullTableName: the prefix and an underscore before the name when a
\* prefix is set.
getFullTableName(prefix, name) ==
    IF prefix # "" THEN prefix \o "_" \o name ELSE name

\* The table a statement addresses: the one Scopes(a.casbinRuleTable()) set
\* on the connection, else the one gorm takes from the statement's model,
\* CasbinRule.TableName().
statementTable(scoped, prefix, name) ==
    IF scoped THEN getFullTableName(prefix, name) ELSE defaultTableName

\* The rows of the table of that name.
readTable(name) ==
    IF name = getFullTableName(tablePrefix, tableName) THEN store
    ELSE otherTables[name]

\* The table of that name takes the rows.
WriteTable(name, rows) ==
    /\ store' = IF name = getFullTableName(tablePrefix, tableName) THEN rows ELSE store
    /\ otherTables' = IF name = getFullTableName(tablePrefix, tableName)
                      THEN otherTables
                      ELSE [otherTables EXCEPT ![name] = rows]

\* NewAdapterByDBUseTableName(db, prefix, tableName, ...): an empty table
\* name stands for the default one.
InitTable ==
    /\ store = <<>>
    /\ model = EmptyModel
    /\ isFiltered = FALSE
    /\ eAdapter = "a"
    /\ saved = FALSE
    /\ last = Idle
    /\ tablePrefix \in {"", "cms"}
    /\ \E name \in {"", "rules"} :
        tableName = IF name = "" THEN defaultTableName ELSE name
    /\ otherTables = [n \in TableNames \ {getFullTableName(tablePrefix, tableName)} |-> <<>>]
    /\ NoContextCall

\* removePolicy: encode the rule and delete by the row's predicate.
removePolicy(tbl, ptype, rule) == rawDelete(tbl, savePolicyLine(ptype, rule))

\* Adapter.RemovePolicy: removePolicy hands a.db, on which no table is set,
\* to rawDelete.
RemovePolicy(ptype, rule) ==
    LET name == statementTable(FALSE, tablePrefix, tableName) IN
    /\ WriteTable(name, removePolicy(readTable(name), ptype, rule))
    /\ saved' = (saved /\ store' = store)
    /\ last' = [op |-> "remove", ptype |-> ptype, rule |-> rule, pre |-> store,
                preOthers |-> otherTables, err |-> ErrNil]
    /\ UNCHANGED <<model, isFiltered, eAdapter, tablePrefix, tableName, ctxVars>>

\* Adapter.RemoveFilteredPolicy: removeFilteredPolicy hands rawDelete the
\* connection it set the adapter's table on.
TableRemoveFilteredPolicy(ptype, fieldIndex, fieldValues) ==
    LET name == statementTable(TRUE, tablePrefix, tableName)
        r == removeFilteredPolicy(readTable(name), ptype, fieldIndex, fieldValues) IN
    /\ WriteTable(name, r.tbl)
    /\ saved' = (saved /\ store' = store)
    /\ last' = [op |-> "removeFiltered", ptype |-> ptype, fieldIndex |-> fieldIndex,
                fieldValues |-> fieldValues, pre |-> store,
                preOthers |-> otherTables, err |-> r.err]
    /\ UNCHANGED <<model, isFiltered, eAdapter, tablePrefix, tableName, ctxVars>>

\* Adapter.Transaction: adapter b takes a.tableName and the transaction, and
\* no prefix; the callback's rules go through b.
TableTransaction(adds, cbRet) ==
    LET name == statementTable(TRUE, "", tableName)
        r == Transaction(readTable(name), model, adds, cbRet, FALSE, FALSE) IN
    /\ Len(r.tbl) <= MaxRows
    /\ WriteTable(name, r.tbl)
    /\ model' = r.model
    /\ eAdapter' = "b"
    /\ saved' = (saved /\ store' = store /\ model' = model)
    /\ last' = [op |-> "transaction", adds |-> adds, cbRet |-> cbRet, pre |-> store,
                preModel |-> model, preOthers |-> otherTables, err |-> r.err]
    /\ UNCHANGED <<isFiltered, tablePrefix, tableName, ctxVars>>

CallTableAddPolicy ==
    /\ last.op = "idle"
    /\ \E t \in TxRules : AddPolicy(t[1], Tail(t), FALSE)

CallRemovePolicy ==
    /\ last.op = "idle"
    /\ \E t \in TxRules : RemovePolicy(t[1], Tail(t))

CallTableRemoveFilteredPolicy ==
    /\ last.op = "idle"
    /\ \E ptype \in FilteredPTypes : TableRemoveFilteredPolicy(ptype, -1, <<>>)

CallTableTransaction ==
    /\ last.op = "idle"
    /\ \E adds \in SeqUpTo(TxRules, 2), cbRet \in {ErrNil, ErrCallback} :
        TableTransaction(adds, cbRet)

NextTable ==
    \/ CallTableAddPolicy
    \/ CallRemovePolicy
    \/ CallTableRemoveFilteredPolicy
    \/ CallTableTransaction
    \/ Return

SpecTable == InitTable /\ [][NextTable]_vars

\* C17: no call of the adapter changes a table other than the configured
\* one; after a successful remove the configured table holds no row of the
\* rule; after a committed transaction the configured table holds the rows
\* of the rules its callback added.
C17_ConfiguredTableOnly ==
    /\ (last.op # "idle" /\ "preOthers" \in DOMAIN last) => otherTables = last.preOthers
    /\ (last.op = "remove" /\ last.err = ErrNil) =>
           savePolicyLine(last.ptype, last.rule) \notin Range(store)
    /\ (last.op = "transaction" /\ last.err = ErrNil /\ "preOthers" \in DOMAIN last) =>
           \A i \in 1..Len(last.adds) :
               Tail(last.adds[i]) \in Range(model[last.adds[i][1]])
                   => savePolicyLine(last.adds[i][1], Tail(last.adds[i])) \in Range(store)

====
